---------------------------- MODULE Spec2Model ----------------------------
(* Shader IO (core.py): export of shading networks of a scene to a JSON    *)
(* document and their import into a scene.                                 *)
(*                                                                         *)
(* Strings (node names, plugs "node.attr", file paths) are tuples of       *)
(* one-character strings, so that startswith / replace / split act on the  *)
(* characters as they do in the code.  A Python dict is a sequence of      *)
(* <<key, value>> pairs with distinct keys, in insertion order.            *)
EXTENDS Integers, Sequences, FiniteSets, TLC

VARIABLES scene, selection, fs, node_list_default, last, imports

vars == <<scene, selection, fs, node_list_default, last, imports>>

-----------------------------------------------------------------------------
(* Bounds *)

\* imports run after the scene was set up
MaxImports == 1
\* recursion depth at which the interpreter raises RecursionError
MaxDepth == 6

-----------------------------------------------------------------------------
(* str *)

Alphabet == <<".", "/", "1", "2", "3", "4", "5", "6", "7", "8", "9", "D", "\\",
              "a", "b", "c", "d", "e", "f", "g", "h", "i", "k", "l", "m", "n", "o",
              "r", "s", "t", "u", "w", "x", "y">>

Digits == {"1", "2", "3", "4", "5", "6", "7", "8", "9"}

Ord(c) == CHOOSE i \in 1..Len(Alphabet) : Alphabet[i] = c

RECURSIVE StrLess(_, _)
StrLess(a, b) ==
    IF b = <<>> THEN FALSE
    ELSE IF a = <<>> THEN TRUE
    ELSE IF a[1] # b[1] THEN Ord(a[1]) < Ord(b[1])
    ELSE StrLess(Tail(a), Tail(b))

StartsWith(s, p) == Len(p) <= Len(s) /\ SubSeq(s, 1, Len(p)) = p

\* str.replace(old, new): every non-overlapping occurrence, left to right
RECURSIVE Replace(_, _, _)
Replace(s, old, new) ==
    IF Len(s) < Len(old) THEN s
    ELSE IF StartsWith(s, old)
         THEN new \o Replace(SubSeq(s, Len(old) + 1, Len(s)), old, new)
         ELSE <<s[1]>> \o Replace(Tail(s), old, new)

\* sub in s
RECURSIVE Contains(_, _)
Contains(s, sub) ==
    IF Len(s) < Len(sub) THEN FALSE
    ELSE StartsWith(s, sub) \/ Contains(Tail(s), sub)

\* s.split(".")[0]
RECURSIVE SplitHead(_)
SplitHead(s) ==
    IF s = <<>> \/ s[1] = "." THEN <<>>
    ELSE <<s[1]>> \o SplitHead(Tail(s))

\* the text after the first ".", <<>> if there is none
SplitRest(s) ==
    LET h == SplitHead(s)
    IN IF Len(h) >= Len(s) THEN <<>> ELSE SubSeq(s, Len(h) + 2, Len(s))

\* "{}.{}".format(node, attr)
Plug(node, attr) == node \o <<".">> \o attr

-----------------------------------------------------------------------------
(* list and dict *)

Range(q) == {q[i] : i \in 1..Len(q)}

InList(x, q) == \E i \in 1..Len(q) : q[i] = x

\* list.index(x): first position of an equal element
IndexOf(q, x) == CHOOSE i \in 1..Len(q) : q[i] = x /\ \A j \in 1..(i - 1) : q[j] # x

Keys(d) == [i \in 1..Len(d) |-> d[i][1]]

HasKey(d, k) == \E i \in 1..Len(d) : d[i][1] = k

Get(d, k) == d[CHOOSE i \in 1..Len(d) : d[i][1] = k][2]

\* d[k] = v: an existing key keeps its position, a new key goes last
Put(d, k, v) ==
    IF HasKey(d, k)
    THEN [i \in 1..Len(d) |-> IF d[i][1] = k THEN <<k, v>> ELSE d[i]]
    ELSE Append(d, <<k, v>>)

\* del d[k]
Del(d, k) == SelectSeq(d, LAMBDA e : e[1] # k)

\* the least string of a set
Least(S) == CHOOSE x \in S : \A y \in S \ {x} : StrLess(x, y)

\* the strings of a set in ascending order
RECURSIVE SortedSeq(_)
RECURSIVE SortedFrom(_, _)
SortedSeq(S) == IF S = {} THEN <<>> ELSE SortedFrom(S, Least(S))

SortedFrom(S, m) == <<m>> \o SortedSeq(S \ {m})

\* the items of a dict in the order ks of its keys
ItemsInOrder(d, ks) == [i \in 1..Len(ks) |-> <<ks[i], Get(d, ks[i])>>]

\* a dict with its keys in ascending order (json.dump(..., sort_keys=True))
SortKeys(d) == ItemsInOrder(d, SortedSeq(Range(Keys(d))))

-----------------------------------------------------------------------------
(* The host scene graph (maya.cmds), as far as core.py uses it.            *)
(* A scene is [types, conns, vals, parent, defaults]: the type of every    *)
(* node, the connections <<source plug, destination plug>>, the values of  *)
(* the attributes, the transform of every shape, and the names             *)
(* cmds.ls(defaultNodes=True) lists.                                       *)

\* every attribute of a node type, in listing order
AttrsOf(type) ==
    CASE type = "shadingEngine" -> << <<"u">>, <<"D">> >>
      [] type = "lambert"       -> << <<"c">>, <<"r">>, <<"k">>, <<"o">> >>
      [] type = "file"          -> << <<"x">>, <<"f">>, <<"w">>, <<"y">>, <<"o">> >>
      [] type = "mesh"          -> << <<"i">> >>
      [] type = "colorManagementGlobals" -> << <<"w">> >>
      [] OTHER                  -> << >>

\* cmds.listAttr(node, visible=True, write=True, output=False, inUse=True)
ListAttr(type) ==
    CASE type = "lambert" -> << <<"c">>, <<"r">>, <<"k">> >>
      [] type = "file"    -> << <<"x">>, <<"f">>, <<"w">>, <<"y">> >>
      [] OTHER            -> << >>

\* cmds.getAttr(plug, type=True)
AttrType(attr) ==
    CASE attr \in {<<"c">>, <<"x">>, <<"o">>} -> "float3"
      [] attr \in {<<"r">>, <<"k">>, <<"f">>} -> "float"
      [] attr = <<"w">>                       -> "long"
      [] attr = <<"y">>                       -> "matrix"
      [] OTHER                                -> "message"

\* cmds.attributeQuery(attr, node=n, listChildren=True)
ChildAttrs(attr) == IF attr = <<"c">> THEN << <<"r">> >> ELSE << >>

\* An attribute value is a number Num(n) or a list or tuple List(q) of values.
Num(n) == [t |-> "num", n |-> n, v |-> <<>>]

List(q) == [t |-> "list", n |-> 0, v |-> q]

\* the attributes of a type that hold a value of their own (the compound
\* float3 attributes hold theirs in their children)
ValueAttrs(type) ==
    {a \in Range(AttrsOf(type)) : AttrType(a) \in {"float", "long", "matrix"}}

\* the value of an attribute of a node just created
DefaultValue(attr) ==
    IF AttrType(attr) = "matrix" THEN List(<<Num(0), Num(0)>>) ELSE Num(0)

ObjExists(sc, name) == name \in DOMAIN sc.types

NodeExists(sc, plug) == ObjExists(sc, SplitHead(plug))

PlugExists(sc, plug) ==
    /\ NodeExists(sc, plug)
    /\ SplitRest(plug) \in Range(AttrsOf(sc.types[SplitHead(plug)]))

\* the order of the connections a query lists: by destination, then source
ConnKey(c) == c[2] \o <<".">> \o c[1]

ConnsInOrder(cs, ks) == [i \in 1..Len(ks) |-> CHOOSE c \in cs : ConnKey(c) = ks[i]]

OrderedConns(cs) == ConnsInOrder(cs, SortedSeq({ConnKey(c) : c \in cs}))

\* the connections into a node
IncomingOf(sc, node) == OrderedConns({c \in sc.conns : SplitHead(c[2]) = node})

\* the connections into one plug
IncomingOfPlug(sc, plug) == OrderedConns({c \in sc.conns : c[2] = plug})

\* the source plug, or its node, of each connection of a list
SourcesOf(cs) == [i \in 1..Len(cs) |-> cs[i][1]]

SourceNodesOf(cs) == [i \in 1..Len(cs) |-> SplitHead(cs[i][1])]

\* cmds.listRelatives(name, shapes=True); <<>> stands for None
ListRelativesShapes(sc, name) ==
    SortedSeq({x \in DOMAIN sc.parent : sc.parent[x] = name})

\* cmds.listConnections(node, source=True, destination=False, shapes=True)
ListSourceNodes(sc, node) == SourceNodesOf(IncomingOf(sc, node))

\* cmds.listConnections(mesh, type='shadingEngine', destination=True)
ListShadingEngines(sc, mesh) ==
    SortedSeq({SplitHead(c[2]) : c \in {x \in sc.conns :
                  SplitHead(x[1]) = mesh /\ sc.types[SplitHead(x[2])] = "shadingEngine"}}
              \cup
              {SplitHead(c[1]) : c \in {x \in sc.conns :
                  SplitHead(x[2]) = mesh /\ sc.types[SplitHead(x[1])] = "shadingEngine"}})

\* cmds.hyperShade(objects=material); cmds.ls(selection=True)
HyperShadeObjects(sc, material) ==
    LET sgs == {SplitHead(c[2]) : c \in {x \in sc.conns :
                    SplitHead(x[1]) = material /\ SplitRest(x[2]) = <<"u">>}}
    IN SortedSeq({SplitHead(c[1]) : c \in {x \in sc.conns :
                    SplitHead(x[2]) \in sgs /\ SplitRest(x[2]) = <<"D">>}})

\* a name without its trailing digits
RECURSIVE StripDigits(_)
StripDigits(name) ==
    IF name # <<>> /\ name[Len(name)] \in Digits
    THEN StripDigits(SubSeq(name, 1, Len(name) - 1))
    ELSE name

DigitStr(k) == <<CHOOSE c \in Digits : Ord(c) = Ord("1") + k - 1>>

\* the name the host gives a new node asked to be called `name`
UniqueName(sc, name) ==
    IF ~ObjExists(sc, name) THEN name
    ELSE LET base == StripDigits(name)
             k == CHOOSE i \in 1..9 :
                      /\ ~ObjExists(sc, base \o DigitStr(i))
                      /\ \A j \in 1..(i - 1) : ObjExists(sc, base \o DigitStr(j))
         IN base \o DigitStr(k)

\* the scene with a node `new` of a type, its attributes at their defaults
AddNode(sc, type, new) ==
       [scene |-> [sc EXCEPT
                     !.types = [x \in DOMAIN sc.types \cup {new} |->
                                  IF x = new THEN type ELSE sc.types[x]],
                     !.vals = [p \in DOMAIN sc.vals \cup
                                     {<<new, a>> : a \in ValueAttrs(type)} |->
                                  IF p[1] = new THEN DefaultValue(p[2]) ELSE sc.vals[p]]],
        name |-> new]

\* cmds.createNode / cmds.shadingNode / cmds.sets(name=...): the scene with the
\* new node, and the name it got
CreateNode(sc, type, name) == AddNode(sc, type, UniqueName(sc, name))

\* cmds.delete(name)
DeleteNode(sc, name) ==
    [sc EXCEPT
       !.types = [x \in DOMAIN sc.types \ {name} |-> sc.types[x]],
       !.conns = {c \in sc.conns : SplitHead(c[1]) # name /\ SplitHead(c[2]) # name},
       !.vals = [p \in {q \in DOMAIN sc.vals : q[1] # name} |-> sc.vals[p]],
       !.parent = [x \in DOMAIN sc.parent \ {name} |-> sc.parent[x]],
       !.defaults = sc.defaults \ {name}]

\* cmds.connectAttr(src, dst) raises unless both plugs exist and dst is free
CanConnect(sc, src, dst) ==
    /\ PlugExists(sc, src)
    /\ PlugExists(sc, dst)
    /\ ~\E c \in sc.conns : c[2] = dst

ConnectAttr(sc, src, dst) == [sc EXCEPT !.conns = sc.conns \cup {<<src, dst>>}]

\* cmds.sets(mesh, edit=True, forceElement=sg) raises unless mesh is a shape
CanAssign(sc, mesh, sg) ==
    /\ ObjExists(sc, mesh) /\ sc.types[mesh] = "mesh"
    /\ ObjExists(sc, sg) /\ sc.types[sg] = "shadingEngine"

SetsForceElement(sc, mesh, sg) ==
    [sc EXCEPT !.conns =
        {c \in sc.conns : ~(SplitHead(c[1]) = mesh /\ SplitRest(c[2]) = <<"D">>)}
        \cup {<<Plug(mesh, <<"i">>), Plug(sg, <<"D">>)>>}]

\* cmds.setAttr(plug, val) raises unless the plug holds a value
CanSetAttr(sc, plug) == <<SplitHead(plug), SplitRest(plug)>> \in DOMAIN sc.vals

SetAttrHost(sc, plug, val) ==
    [sc EXCEPT !.vals[<<SplitHead(plug), SplitRest(plug)>>] = val]

\* cmds.getAttr(plug)
GetAttr(sc, plug) == sc.vals[<<SplitHead(plug), SplitRest(plug)>>]

-----------------------------------------------------------------------------
(* Scenes the session can open *)

nS == <<"s">>
nR == <<"r">>
nM == <<"m">>
nN == <<"n">>
nT == <<"t">>
nO == <<"o">>
nM1 == <<"m", "1">>
nT1 == <<"t", "1">>
nG == <<"g">>
nH == <<"h">>
nA == <<"a">>
nB == <<"b">>
nD == <<"d">>
nE == <<"e">>
nL == <<"l">>

\* a scene from its nodes <<name, type>>, connections and non-default values
MkScene(nodes, conns, set) ==
    LET names == {n[1] : n \in nodes}
        typeOf(x) == (CHOOSE n \in nodes : n[1] = x)[2]
        plugs == {<<x, a>> : x \in names, a \in {<<"r">>, <<"k">>, <<"f">>, <<"w">>, <<"y">>}}
    IN [types |-> [x \in names |-> typeOf(x)],
        conns |-> conns,
        vals |-> [p \in {q \in plugs : q[2] \in ValueAttrs(typeOf(q[1]))} |->
                    IF \E e \in set : e[1] = p
                    THEN (CHOOSE e \in set : e[1] = p)[2]
                    ELSE DefaultValue(p[2])],
        parent |-> [x \in {n \in names : typeOf(n) = "mesh"} |->
                      IF x = nH THEN nG ELSE nA],
        defaults |-> names \cap {nD, nE, nL}]

\* what every scene holds: the default shading group e with its material l,
\* the default node d, and the mesh shapes h and b under the transforms g and a
BaseNodes ==
    {<<nE, "shadingEngine">>, <<nL, "lambert">>, <<nD, "colorManagementGlobals">>,
     <<nG, "transform">>, <<nH, "mesh">>, <<nA, "transform">>, <<nB, "mesh">>}

BaseConns == {<<Plug(nL, <<"o">>), Plug(nE, <<"u">>)>>}

MeshTo(mesh, sg) == <<Plug(mesh, <<"i">>), Plug(sg, <<"D">>)>>

\* shading group s with material m and the file texture tex feeding m.c
Network(tex) ==
    [nodes |-> {<<nS, "shadingEngine">>, <<nM, "lambert">>, <<tex, "file">>},
     conns |-> {<<Plug(nM, <<"o">>), Plug(nS, <<"u">>)>>,
                <<Plug(tex, <<"o">>), Plug(nM, <<"c">>)>>},
     set |-> {<< <<nM, <<"k">>>>, Num(1)>>, << <<tex, <<"f">>>>, Num(2)>>,
              << <<tex, <<"y">>>>, List(<<Num(1), Num(0)>>)>>}]

\* the scene of a network and more; the mesh h is bound to s, the mesh b to sgB
SceneOf(net, nodes, conns, sgB) ==
    MkScene(BaseNodes \cup net.nodes \cup nodes,
            BaseConns \cup net.conns \cup conns \cup {MeshTo(nH, nS), MeshTo(nB, sgB)},
            net.set)

Scenes ==
    << \* 1: no shader but the default one
       MkScene(BaseNodes, BaseConns \cup {MeshTo(nH, nE), MeshTo(nB, nE)}, {}),
       \* 2: unconnected nodes called m and t
       MkScene(BaseNodes \cup {<<nM, "lambert">>, <<nT, "file">>},
               BaseConns \cup {MeshTo(nH, nE), MeshTo(nB, nE)}, {}),
       \* 3: one shading network s <- m <- t
       SceneOf(Network(nT), {}, {}, nS),
       \* 4: the default node d feeds the texture
       SceneOf(Network(nT), {}, {<<Plug(nD, <<"w">>), Plug(nT, <<"w">>)>>}, nS),
       \* 5: a second shading group r with material n shares the texture
       SceneOf(Network(nT), {<<nR, "shadingEngine">>, <<nN, "lambert">>},
               {<<Plug(nN, <<"o">>), Plug(nR, <<"u">>)>>,
                <<Plug(nT, <<"o">>), Plug(nN, <<"c">>)>>}, nR),
       \* 6: the texture is called o, like its output attribute
       SceneOf(Network(nO), {}, {}, nS),
       \* 7: the texture is called m1
       SceneOf(Network(nM1), {}, {}, nS),
       \* 8: a texture t1 feeds the texture t
       SceneOf(Network(nT), {<<nT1, "file">>},
               {<<Plug(nT1, <<"o">>), Plug(nT, <<"x">>)>>}, nS) >>

-----------------------------------------------------------------------------
(* core.py: the helpers *)

\* bool(v) of Python
Truthy(v) == IF v.t = "num" THEN v.n # 0 ELSE v.v # <<>>

\* any(q)
AnyTrue(q) == \E i \in 1..Len(q) : Truthy(q[i])

RECURSIVE flatten_list(_)
flatten_list(matrix) ==
    IF matrix = <<>> THEN <<>>
    ELSE LET each == Head(matrix)
         IN IF each.t = "list"
            THEN each.v \o flatten_list(Tail(matrix))
            ELSE <<each>> \o flatten_list(Tail(matrix))

\* cmds.listConnections(plug, plugs=True, destination=False)
SourcePlugs(sc, plug) == SourcesOf(IncomingOfPlug(sc, plug))

RECURSIVE FlatPairs(_)
FlatPairs(cs) ==
    IF cs = <<>> THEN <<>> ELSE <<cs[1][2], cs[1][1]>> \o FlatPairs(Tail(cs))

\* cmds.listConnections(node, connections=True, plugs=True, destination=False)
ListIncomingFlat(sc, node) == FlatPairs(IncomingOf(sc, node))

\* cmds.listConnections(plug, connections=True, plugs=True, source=True
\* [, destination=dest]): the plug followed by each plug connected to it
ListPlugConnections(sc, plug, dest) ==
    LET out == SortedSeq({c[2] : c \in {x \in sc.conns : x[1] = plug}})
    IN FlatPairs(IncomingOfPlug(sc, plug))
       \o (IF dest THEN FlatPairs([i \in 1..Len(out) |-> <<out[i], plug>>]) ELSE <<>>)

\* the body of confirm_attr_order, sources being what
\* cmds.listConnections(attr_1, plugs=True, destination=False) lists
AttrOrder(attr_1, attr_2, sources) ==
    IF sources # <<>>
    THEN IF InList(attr_2, sources)
         THEN <<attr_2, attr_1>>
         ELSE <<attr_1, attr_2>>
    ELSE <<attr_1, attr_2>>

confirm_attr_order(sc, connected_attributes) ==
    AttrOrder(connected_attributes[1], connected_attributes[2],
              SourcePlugs(sc, connected_attributes[1]))

\* node_list with the nodes of src it lacks appended, in order
RECURSIVE AppendNew(_, _)
AppendNew(node_list, src) ==
    IF src = <<>> THEN node_list
    ELSE AppendNew(IF InList(Head(src), node_list) THEN node_list
                   ELSE Append(node_list, Head(src)),
                   Tail(src))

\* get_src_nodes: [list, ok]; ok is FALSE when the recursion limit is hit
RECURSIVE get_src_nodes(_, _, _, _)
RECURSIVE GetSrcNodesEach(_, _, _, _)
RECURSIVE GetSrcNodesOf(_, _, _, _)
get_src_nodes(sc, node_name, node_list, depth) ==
    IF depth > MaxDepth THEN [list |-> node_list, ok |-> FALSE]
    ELSE GetSrcNodesOf(sc, SelectSeq(ListSourceNodes(sc, node_name),
                                     LAMBDA x : sc.types[x] # "mesh"),
                       node_list, depth)

\* the two loops over src_nodes, the shapes removed
GetSrcNodesOf(sc, src_nodes, node_list, depth) ==
    GetSrcNodesEach(sc, src_nodes, AppendNew(node_list, src_nodes), depth)

GetSrcNodesEach(sc, src_nodes, node_list, depth) ==
    IF src_nodes = <<>> THEN [list |-> node_list, ok |-> TRUE]
    ELSE LET r == get_src_nodes(sc, Head(src_nodes), node_list, depth + 1)
         IN IF r.ok THEN GetSrcNodesEach(sc, Tail(src_nodes), r.list, depth)
            ELSE r

-----------------------------------------------------------------------------
(* core.py: build_shader_dict *)

filter_list == {"float3", "float2", "double2", "double3"}

\* the loop over the connections of the shading group
RECURSIVE SgConnections(_, _, _, _)
SgConnections(sc, shading_engine, src, connections) ==
    IF src = <<>> THEN connections
    ELSE LET each == Head(src)
         IN IF Contains(each, <<"D">>)
            THEN SgConnections(sc, shading_engine, Tail(src), connections)
            ELSE IF SplitHead(each) = shading_engine
            THEN SgConnections(sc, shading_engine, Tail(src),
                    Append(connections,
                           confirm_attr_order(sc, ListPlugConnections(sc, each, TRUE))))
            ELSE SgConnections(sc, shading_engine, Tail(src), connections)

\* "if connection_data not in shader_dict["connections"]"
AddConnection(acc, attr, connection_data) ==
    [acc EXCEPT
       !.skip = acc.skip \o ChildAttrs(attr),
       !.connections = IF InList(connection_data, acc.connections)
                       THEN acc.connections
                       ELSE Append(acc.connections, connection_data)]

\* the attribute is not connected: its value is stored or not
AddValue(acc, attr, attr_val) ==
    IF attr_val.t = "list"
    THEN IF ~AnyTrue(attr_val.v) THEN acc
         ELSE [acc EXCEPT !.attrs = Put(acc.attrs, attr, List(flatten_list(attr_val.v)))]
    ELSE [acc EXCEPT !.attrs = Put(acc.attrs, attr, attr_val)]

\* the body of "for attr in shader_attrs", connected being what
\* cmds.listConnections(full_attr, connections=True, plugs=True, source=True,
\* destination=False) lists; acc = [attrs, connections, skip]
NodeAttribute(sc, acc, attr, full_attr, connected) ==
    IF connected # <<>>
    THEN AddConnection(acc, attr, confirm_attr_order(sc, connected))
    ELSE IF InList(attr, acc.skip) \/ AttrType(attr) \in filter_list
    THEN acc
    ELSE AddValue(acc, attr, GetAttr(sc, full_attr))

\* the loop over the attributes of one node
RECURSIVE NodeAttributes(_, _, _, _)
NodeAttributes(sc, each, shader_attrs, acc) ==
    IF shader_attrs = <<>> THEN acc
    ELSE NodeAttributes(sc, each, Tail(shader_attrs),
            NodeAttribute(sc, acc, Head(shader_attrs), Plug(each, Head(shader_attrs)),
                ListPlugConnections(sc, Plug(each, Head(shader_attrs)), FALSE)))

\* the node is kept: its entry and what its attributes add
AddNodeEntry(acc, each, node_type, got) ==
    [acc EXCEPT
       !.nodes = Put(acc.nodes, each, [node_type |-> node_type, Attributes |-> got.attrs]),
       !.connections = got.connections]

\* the body of "for each in shader_graph_nodes"; acc = [ok, nodes, connections]
GraphNode(sc, each, acc) ==
    IF sc.types[each] = "transform"
    THEN IF ListRelativesShapes(sc, each) = <<>>
         THEN [acc EXCEPT !.ok = FALSE]      \* len(None)
         ELSE acc
    ELSE IF each \in sc.defaults
    THEN acc
    ELSE AddNodeEntry(acc, each, sc.types[each],
            NodeAttributes(sc, each, ListAttr(sc.types[each]),
                [attrs |-> <<>>, connections |-> acc.connections, skip |-> <<>>]))

\* the loop over the nodes of the graph
RECURSIVE GraphNodes(_, _, _)
GraphNodes(sc, shader_graph_nodes, acc) ==
    IF shader_graph_nodes = <<>> \/ ~acc.ok THEN acc
    ELSE GraphNodes(sc, Tail(shader_graph_nodes),
                    GraphNode(sc, Head(shader_graph_nodes), acc))

\* the record of the shading group, done = [ok, nodes, connections]
ShaderDict(sc, material_name, done) ==
    IF ~done.ok THEN [ok |-> FALSE, dict |-> <<>>]
    ELSE [ok |-> TRUE,
          dict |-> [base_material |-> [name |-> material_name,
                                       type |-> sc.types[material_name]],
                    nodes |-> done.nodes,
                    connections |-> done.connections,
                    meshes |-> HyperShadeObjects(sc, material_name)]]

\* build_shader_dict after the base material: graph is what get_src_nodes gave
BuildGraph(sc, shading_engine, material_name, graph) ==
    IF ~graph.ok THEN [ok |-> FALSE, dict |-> <<>>]
    ELSE ShaderDict(sc, material_name,
            GraphNodes(sc, graph.list,
                [ok |-> TRUE, nodes |-> <<>>,
                 connections |-> SgConnections(sc, shading_engine,
                                    ListIncomingFlat(sc, shading_engine), <<>>)]))

\* build_shader_dict, mats being what
\* cmds.listConnections("<shading_engine>.surfaceShader", destination=False) lists
BuildFrom(sc, shading_engine, mats) ==
    IF mats = <<>> THEN [ok |-> FALSE, dict |-> <<>>]          \* None[0]
    ELSE BuildGraph(sc, shading_engine, mats[1],
                    get_src_nodes(sc, shading_engine, <<>>, 0))

\* [ok, dict]: ok is FALSE when the call raises
build_shader_dict(sc, shading_engine) ==
    BuildFrom(sc, shading_engine,
              SourceNodesOf(IncomingOfPlug(sc, Plug(shading_engine, <<"u">>))))

-----------------------------------------------------------------------------
(* core.py: export_shaders *)

\* a dict with f applied to each of its values
MapValues(d, f(_)) == [i \in 1..Len(d) |-> <<d[i][1], f(d[i][2])>>]

SortedSettings(settings) == [settings EXCEPT !.Attributes = SortKeys(settings.Attributes)]

SortedNetwork(net) ==
    [net EXCEPT !.nodes = MapValues(SortKeys(net.nodes), SortedSettings)]

\* json.dump(shaders_dict, json_file, indent=4, sort_keys=True): the document
\* of the file, every object with its keys in ascending order
json_dump(shaders_dict) == MapValues(SortKeys(shaders_dict), SortedNetwork)

\* the shapes of the selected objects
RECURSIVE SelectedMeshes(_, _)
SelectedMeshes(sc, sel) ==
    IF sel = <<>> THEN <<>>
    ELSE ListRelativesShapes(sc, Head(sel)) \o SelectedMeshes(sc, Tail(sel))

\* "shaders_dict[shading_engine] = build_shader_dict(...)"; acc = [ok, dict]
\* AddBuilt removing the "meshes" key where it is to empty the list
AddBuilt_MeshesRemoved(acc, shading_engine, built, meshes_emptied) ==
    IF ~built.ok THEN [acc EXCEPT !.ok = FALSE]
    ELSE [acc EXCEPT !.dict =
             Put(acc.dict, shading_engine,
                 IF meshes_emptied
                 THEN [base_material |-> built.dict.base_material,
                       nodes |-> built.dict.nodes,
                       connections |-> built.dict.connections]
                 ELSE built.dict)]

AddBuilt(acc, shading_engine, built, meshes_emptied) ==
    IF ~built.ok THEN [acc EXCEPT !.ok = FALSE]
    ELSE [acc EXCEPT !.dict =
             Put(acc.dict, shading_engine,
                 IF meshes_emptied THEN [built.dict EXCEPT !.meshes = <<>>]
                 ELSE built.dict)]

\* the body of "for each in meshes", engines being what
\* cmds.listConnections(each, type='shadingEngine', destination=True) lists
ExportMesh(sc, engines, acc) ==
    IF engines = <<>> THEN [acc EXCEPT !.ok = FALSE]        \* None[0]
    ELSE IF HasKey(acc.dict, engines[1]) THEN acc
    ELSE AddBuilt(acc, engines[1], build_shader_dict(sc, engines[1]), FALSE)

\* the loop over the meshes
RECURSIVE ExportMeshes(_, _, _)
ExportMeshes(sc, meshes, acc) ==
    IF meshes = <<>> \/ ~acc.ok THEN acc
    ELSE ExportMeshes(sc, Tail(meshes),
                      ExportMesh(sc, ListShadingEngines(sc, Head(meshes)), acc))

\* the loop over the selected shading groups
RECURSIVE ExportEngines(_, _, _)
ExportEngines(sc, shading_engines, acc) ==
    IF shading_engines = <<>> \/ ~acc.ok THEN acc
    ELSE ExportEngines(sc, Tail(shading_engines),
            IF HasKey(acc.dict, Head(shading_engines)) THEN acc
            ELSE AddBuilt(acc, Head(shading_engines),
                          build_shader_dict(sc, Head(shading_engines)), TRUE))

\* what export_shaders logs before it writes
ExportLog(sel, selection_type, found) ==
    (IF Len(sel) < 1 THEN <<"error: nothing is selected">> ELSE <<>>)
    \o (IF selection_type \in {"mesh", "shadingEngine"} /\ Len(found) < 1
        THEN <<"error: no meshes found in selection">>
        ELSE <<>>)

\* "Export to JSON file"; res = [ok, dict]
ExportWrite(res, log) ==
    IF res.ok
    THEN [ok |-> TRUE, written |-> json_dump(res.dict),
          log |-> Append(log, "info: exported"), built |-> res.dict]
    ELSE [ok |-> FALSE, written |-> <<>>, log |-> log, built |-> res.dict]

\* ExportFound returning before the write when nothing was found
ExportFound_Abort(sc, sel, selection_type, found) ==
    IF found = <<>>
    THEN [ok |-> FALSE, written |-> <<>>, built |-> <<>>,
          log |-> ExportLog(sel, selection_type, found)]
    ELSE ExportWrite(IF selection_type = "mesh"
                     THEN ExportMeshes(sc, found, [ok |-> TRUE, dict |-> <<>>])
                     ELSE ExportEngines(sc, found, [ok |-> TRUE, dict |-> <<>>]),
                     ExportLog(sel, selection_type, found))

\* export_shaders with the objects the selection is filtered to
ExportFound(sc, sel, selection_type, found) ==
    ExportWrite(IF selection_type = "mesh"
                THEN ExportMeshes(sc, found, [ok |-> TRUE, dict |-> <<>>])
                ELSE IF selection_type = "shadingEngine"
                THEN ExportEngines(sc, found, [ok |-> TRUE, dict |-> <<>>])
                ELSE [ok |-> TRUE, dict |-> <<>>],
                ExportLog(sel, selection_type, found))

\* [ok, written, log, built]: ok is FALSE when the call raises (no file is
\* written then), written is the document of the file, built the dict so far
export_shaders(sc, sel, selection_type) ==
    ExportFound(sc, sel, selection_type,
                IF selection_type = "mesh" THEN SelectedMeshes(sc, sel)
                ELSE IF selection_type = "shadingEngine"
                THEN SelectSeq(sel, LAMBDA x : sc.types[x] = "shadingEngine")
                ELSE <<>>)

-----------------------------------------------------------------------------
(* core.py: validate_file_path *)

NoPath == <<>>

\* [ret, log]: the path when the file exists, None (NoPath) otherwise
validate_file_path(files, file_path) ==
    LET return_path ==
            IF Contains(file_path, <<"\\">>)
            THEN Replace(Replace(file_path, <<"\\">>, <<"/">>), <<"/", "/">>, <<"/">>)
            ELSE file_path
    IN IF return_path \in DOMAIN files
       THEN [ret |-> return_path, log |-> <<>>]
       ELSE [ret |-> NoPath, log |-> <<"error: file path not found">>]

-----------------------------------------------------------------------------
(* core.py: import_shaders *)

\* "shaders_dict[...]["connections"][index_num][num] = to", and "each[num] = to"
\* when `both`
AssignAttr(connections, i, index_num, num, to, both) ==
    IF both
    THEN [[connections EXCEPT ![index_num][num] = to] EXCEPT ![i][num] = to]
    ELSE [connections EXCEPT ![index_num][num] = to]

\* the body of "for attr in each": position pos of the pair at index i; the
\* assignment goes to the first pair equal to it (list.index)
RenameAttr(connections, i, index_num, pos, old, new, both) ==
    IF StartsWith(connections[i][pos], old \o <<".">>)
    THEN AssignAttr(connections, i, index_num,
                    IndexOf(connections[i], connections[i][pos]),
                    Replace(connections[i][pos], old, new), both)
    ELSE connections

\* "for each in connections: ... attr.replace(old, new)" from pair i on
RECURSIVE RenameInConnections(_, _, _, _, _)
RenameInConnections(connections, i, old, new, both) ==
    IF i > Len(connections) THEN connections
    ELSE RenameInConnections(
            RenameAttr(RenameAttr(connections, i, IndexOf(connections, connections[i]),
                                  1, old, new, both),
                       i, IndexOf(connections, connections[i]), 2, old, new, both),
            i + 1, old, new, both)

set_attr_type_filter == {"float", "int", "double", "bool", "enum", "short", "long", "list"}

\* set_attr(full_name, val): [ok, scene]; cmds.getAttr raises on a plug that
\* does not exist
set_attr(sc, full_name, val) ==
    IF ~CanSetAttr(sc, full_name) THEN [ok |-> FALSE, scene |-> sc]
    ELSE IF val # GetAttr(sc, full_name)
    THEN IF AttrType(SplitRest(full_name)) \in set_attr_type_filter
         THEN [ok |-> TRUE, scene |-> SetAttrHost(sc, full_name, val)]
         ELSE [ok |-> TRUE, scene |-> SetAttrHost(sc, full_name, val)]  \* type=attr_type
    ELSE [ok |-> TRUE, scene |-> sc]

\* "for key, val in settings["Attributes"].items()"; st = [ok, scene]
RECURSIVE SetAttributes(_, _, _)
SetAttributes(st, node_name, attributes) ==
    IF attributes = <<>> \/ ~st.ok THEN st
    ELSE SetAttributes(set_attr(st.scene, Plug(node_name, Head(attributes)[1]),
                                Head(attributes)[2]),
                       node_name, Tail(attributes))

\* a node of the record was created as new_node; st = [ok, scene, connections]
NodeCreated(st, node_name, made) ==
    [ok |-> TRUE, scene |-> made.scene, name |-> made.name,
     connections |-> IF node_name # made.name
                     THEN RenameInConnections(st.connections, 1, node_name,
                                              made.name, FALSE)
                     ELSE st.connections]

\* "Set the attribute values"; st1 = [ok, scene, name, connections]
NodeSet(st1, set) == [ok |-> set.ok, scene |-> set.scene, connections |-> st1.connections]

NodeAttrs(st1, attributes) ==
    NodeSet(st1, SetAttributes([ok |-> TRUE, scene |-> st1.scene], st1.name, attributes))

\* the body of "for node_name, settings in shader_network["nodes"].items()"
CreateOne(st, node_name, settings, material_name) ==
    NodeAttrs(IF node_name # material_name
              THEN NodeCreated(st, node_name,
                               CreateNode(st.scene, settings.node_type, node_name))
              ELSE [ok |-> TRUE, scene |-> st.scene, name |-> node_name,
                    connections |-> st.connections],
              settings.Attributes)

\* "Create Nodes in the network"; st = [ok, scene, connections]
RECURSIVE CreateNodes(_, _, _)
CreateNodes(st, nodes, material_name) ==
    IF nodes = <<>> \/ ~st.ok THEN st
    ELSE CreateNodes(CreateOne(st, Head(nodes)[1], Head(nodes)[2], material_name),
                     Tail(nodes), material_name)

\* "Connect Attributes together"; st = [ok, scene]
RECURSIVE ConnectAll(_, _)
ConnectAll(st, connections) ==
    IF connections = <<>> \/ ~st.ok THEN st
    ELSE IF CanConnect(st.scene, Head(connections)[1], Head(connections)[2])
    THEN ConnectAll([st EXCEPT !.scene = ConnectAttr(st.scene, Head(connections)[1],
                                                     Head(connections)[2])],
                    Tail(connections))
    ELSE [st EXCEPT !.ok = FALSE]

\* "Apply Shader to existing meshes"; st = [ok, scene]
RECURSIVE AssignMeshes(_, _, _)
AssignMeshes(st, meshes, shader_set) ==
    IF meshes = <<>> \/ ~st.ok THEN st
    ELSE IF ~ObjExists(st.scene, Head(meshes))
    THEN AssignMeshes(st, Tail(meshes), shader_set)
    ELSE IF CanAssign(st.scene, Head(meshes), shader_set)
    THEN AssignMeshes([st EXCEPT !.scene =
                          SetsForceElement(st.scene, Head(meshes), shader_set)],
                      Tail(meshes), shader_set)
    ELSE [st EXCEPT !.ok = FALSE]

\* the connections and the meshes, once the nodes are made
Wire(created, meshes, shader_set) ==
    AssignMeshes(ConnectAll([ok |-> created.ok, scene |-> created.scene],
                            created.connections),
                 meshes, shader_set)

\* "if shading_engine != shader_set"
RenamedSet(connections, shading_engine, shader_set) ==
    IF shading_engine # shader_set
    THEN RenameInConnections(connections, 1, shading_engine, shader_set, TRUE)
    ELSE connections

\* "if shader_network["base_material"]["name"] != material_name": the connections
RenamedMaterial(connections, name, material_name) ==
    IF name # material_name
    THEN RenameInConnections(connections, 1, name, material_name, FALSE)
    ELSE connections

\* ... and the nodes
RekeyedNodes(nodes, name, material_name) ==
    IF name # material_name
    THEN Del(Put(nodes, material_name, Get(nodes, name)), name)
    ELSE nodes

\* one turn of "Create shader networks" after the two base nodes were made
CreateRest(sc, shading_engine, shader_network, material_name, shader_set) ==
    IF /\ shader_network.base_material.name # material_name
       /\ ~HasKey(shader_network.nodes, shader_network.base_material.name)
    THEN [ok |-> FALSE, scene |-> sc]          \* KeyError
    ELSE Wire(CreateNodes([ok |-> TRUE, scene |-> sc,
                           connections |->
                               RenamedMaterial(
                                   RenamedSet(shader_network.connections,
                                              shading_engine, shader_set),
                                   shader_network.base_material.name, material_name)],
                          RekeyedNodes(shader_network.nodes,
                                       shader_network.base_material.name, material_name),
                          material_name),
              shader_network.meshes, shader_set)

\* ... after the material was made
CreateSet(shading_engine, shader_network, material_name, set) ==
    CreateRest(set.scene, shading_engine, shader_network, material_name, set.name)

CreateBase(shading_engine, shader_network, mat) ==
    CreateSet(shading_engine, shader_network, mat.name,
              CreateNode(mat.scene, "shadingEngine", shading_engine))

\* one turn of "Create shader networks": [ok, scene]
CreateNetwork(sc, shading_engine, shader_network) ==
    CreateBase(shading_engine, shader_network,
               CreateNode(sc, shader_network.base_material.type,
                          shader_network.base_material.name))

\* "for shading_engine, shader_network in shaders_dict.items()"; st = [ok, scene]
RECURSIVE CreateNetworks(_, _)
CreateNetworks(st, shaders_dict) ==
    IF shaders_dict = <<>> \/ ~st.ok THEN st
    ELSE CreateNetworks(CreateNetwork(st.scene, Head(shaders_dict)[1], Head(shaders_dict)[2]),
                        Tail(shaders_dict))

\* shader_conflicts == "skip": the dict without the names in the scene
SkipExisting_None(sc, shaders_dict) == shaders_dict

SkipExisting(sc, shaders_dict) ==
    SelectSeq(shaders_dict, LAMBDA e : ~ObjExists(sc, e[1]))

\* "for each in all_related_nodes": delete what is no default node
RECURSIVE DeleteRelated(_, _)
DeleteRelated(sc, all_related_nodes) ==
    IF all_related_nodes = <<>> THEN sc
    ELSE DeleteRelated(IF \/ Head(all_related_nodes) \in sc.defaults
                          \/ ~ObjExists(sc, Head(all_related_nodes))
                       THEN sc
                       ELSE DeleteNode(sc, Head(all_related_nodes)),
                       Tail(all_related_nodes))

\* a shading group of the file exists: got is what get_src_nodes gave
ReplaceOne(st, got) ==
    [ok |-> got.ok,
     scene |-> IF got.ok THEN DeleteRelated(st.scene, got.list) ELSE st.scene,
     node_list |-> got.list]

\* shader_conflicts == "replace"; st = [ok, scene, node_list]; node_list is
\* the default argument of get_src_nodes, one list for the whole session
RECURSIVE ReplaceExisting(_, _)
ReplaceExisting(st, shaders_dict) ==
    IF shaders_dict = <<>> \/ ~st.ok THEN st
    ELSE ReplaceExisting(
            IF ~ObjExists(st.scene, Head(shaders_dict)[1]) THEN st
            ELSE ReplaceOne(st, get_src_nodes(st.scene, Head(shaders_dict)[1],
                                              st.node_list, 0)),
            Tail(shaders_dict))

\* what import_shaders logs when it gets to the end (ok) or raises before
ImportLog(shader_conflicts, ok) ==
    (IF shader_conflicts \in {"skip", "replace", "rename"} THEN <<>>
     ELSE <<"error: no argument set for shader_conflicts">>)
    \o (IF ok THEN <<"info: imported">> ELSE <<>>)

ImportDone(before, made, shader_conflicts) ==
    [ok |-> made.ok, scene |-> made.scene, node_list |-> before.node_list,
     log |-> ImportLog(shader_conflicts, made.ok)]

\* "Create shader networks"; before = [ok, scene, node_list]
ImportCreate(before, todo, shader_conflicts) ==
    ImportDone(before,
               CreateNetworks([ok |-> before.ok, scene |-> before.scene], todo),
               shader_conflicts)

\* ImportDict going on to create the networks after it logged the cancel
ImportDict_NoReturn(sc, node_list, shaders_dict, shader_conflicts) ==
    ImportCreate([ok |-> TRUE, scene |-> sc, node_list |-> node_list],
                 shaders_dict, shader_conflicts)

\* import_shaders on the dict of the file
ImportDict(sc, node_list, shaders_dict, shader_conflicts) ==
    IF shader_conflicts = "cancel"
    THEN [ok |-> TRUE, scene |-> sc, node_list |-> node_list,
          log |-> <<"error: import cancelled">>]
    ELSE ImportCreate(IF shader_conflicts = "replace"
                      THEN ReplaceExisting([ok |-> TRUE, scene |-> sc,
                                            node_list |-> node_list], shaders_dict)
                      ELSE [ok |-> TRUE, scene |-> sc, node_list |-> node_list],
                      IF shader_conflicts = "skip" THEN SkipExisting(sc, shaders_dict)
                      ELSE shaders_dict,
                      shader_conflicts)

\* the keys import_shaders reads: of a record of the file, of its base
\* material, of the settings of a node
import_keys ==
    [network |-> {"base_material", "nodes", "connections", "meshes"},
     base_material |-> {"type", "name"},
     settings |-> {"node_type", "Attributes"}]

\* [ok, scene, node_list, log]: ok is FALSE when the call raises
import_shaders(sc, node_list, files, importPath, shader_conflicts) ==
    IF importPath \notin DOMAIN files                     \* open() raises
    THEN [ok |-> FALSE, scene |-> sc, node_list |-> node_list, log |-> <<>>]
    ELSE ImportDict(sc, node_list, files[importPath], shader_conflicts)

-----------------------------------------------------------------------------
(* The session: a scene is open, the user selects, exports, imports.       *)
(* fs maps the paths of the files that exist to their documents;           *)
(* node_list_default is the list object that is the default of the         *)
(* node_list parameter of get_src_nodes; last describes the last call:     *)
(* its arguments, whether it returned (ok) or raised, what it returned     *)
(* and logged, and the scene and selection it started from.                *)

ExportPath == <<"/", "x">>
OtherPath == <<"/", "y">>
Paths == {ExportPath, OtherPath, <<"\\", "x">>, <<"/", "\\", "x">>}

\* what the user may select
Selections == {<<>>, <<nG>>, <<nG, nA>>, <<nH>>, <<nS>>, <<nS, nR>>}

\* the scenes the user may open during the session
TargetScenes == {1, 2, 3}

\* a call of core.py, with the scene and the selection it started from
Call(op, arg, mode, ok, ret, log) ==
    [op |-> op, arg |-> arg, mode |-> mode, ok |-> ok, ret |-> ret, log |-> log,
     pre |-> scene, presel |-> selection]

\* what the user did between two calls
User(op) ==
    [op |-> op, arg |-> <<>>, mode |-> "", ok |-> TRUE, ret |-> <<>>, log |-> <<>>,
     pre |-> <<>>, presel |-> <<>>]

Init ==
    /\ scene \in Range(Scenes)
    /\ selection = <<>>
    /\ fs = <<>>
    /\ node_list_default = <<>>
    /\ imports = 0
    /\ last = User("init")

\* the user opens another scene; the session and its files stay
OpenScene(i) ==
    /\ imports = 0
    /\ scene' = Scenes[i]
    /\ selection' = <<>>
    /\ last' = User("open")
    /\ UNCHANGED <<fs, node_list_default, imports>>

Select(sel) ==
    /\ imports = 0
    /\ \A i \in 1..Len(sel) : ObjExists(scene, sel[i])
    /\ selection' = sel
    /\ last' = User("select")
    /\ UNCHANGED <<scene, fs, node_list_default, imports>>

Validated(file_path, r) ==
    /\ last' = Call("validate", file_path, "", TRUE, r.ret, r.log)
    /\ UNCHANGED <<scene, selection, fs, node_list_default, imports>>

ValidateFilePath(file_path) ==
    /\ imports = 0
    /\ Validated(file_path, validate_file_path(fs, file_path))

\* what a call of export_shaders leaves; build_shader_dict leaves the
\* selection of cmds.hyperShade(objects=...), which cmds.select(deselect=True)
\* empties or leaves as it is
Exported(selection_type, r) ==
    /\ fs' = IF r.ok
             THEN [p \in DOMAIN fs \cup {ExportPath} |->
                      IF p = ExportPath THEN r.written ELSE fs[p]]
             ELSE fs
    /\ selection' \in
          IF r.built = <<>> THEN {selection}
          ELSE {<<>>, HyperShadeObjects(scene, r.built[Len(r.built)][2].base_material.name)}
    /\ last' = Call("export", ExportPath, selection_type, r.ok, <<>>, r.log)
    /\ UNCHANGED <<scene, node_list_default, imports>>

ExportShaders(selection_type) ==
    /\ imports = 0
    /\ Exported(selection_type, export_shaders(scene, selection, selection_type))

Imported(importPath, shader_conflicts, r) ==
    /\ scene' = r.scene
    /\ node_list_default' = r.node_list
    /\ last' = Call("import", importPath, shader_conflicts, r.ok, <<>>, r.log)
    /\ imports' = imports + 1
    /\ UNCHANGED <<selection, fs>>

ImportShaders(importPath, shader_conflicts) ==
    /\ imports < MaxImports
    /\ Imported(importPath, shader_conflicts,
                import_shaders(scene, node_list_default, fs, importPath, shader_conflicts))

Next ==
    \/ \E i \in TargetScenes : OpenScene(i)
    \/ \E sel \in Selections : Select(sel)
    \/ \E p \in Paths : ValidateFilePath(p)
    \/ \E t \in {"mesh", "meshes", "shadingEngine"} : ExportShaders(t)
    \/ \E p \in {ExportPath, OtherPath} :
          \E c \in {"skip", "replace", "rename", "cancel", ""} : ImportShaders(p, c)

Spec == Init /\ [][Next]_vars

-----------------------------------------------------------------------------
(* Properties *)

\* the names a record of a document holds: shading group, base material, nodes
RecordNames(e) == {e[1], e[2].base_material.name} \cup Range(Keys(e[2].nodes))

DocNames(doc) == UNION {RecordNames(doc[i]) : i \in 1..Len(doc)}

\* the last call was import_shaders on a file that exists
ImportedFile == last.op = "import" /\ last.arg \in DOMAIN fs

\* the nodes the last call added to the scene
NewNodes == DOMAIN scene.types \ DOMAIN last.pre.types

ShadingEngines(sc) == {x \in DOMAIN sc.types : sc.types[x] = "shadingEngine"}

\* the connections the last call made, the binding of meshes apart
NewConnections == {c \in scene.conns \ last.pre.conns : SplitRest(c[2]) # <<"D">>}

DocConnections(doc) == UNION {Range(doc[i][2].connections) : i \in 1..Len(doc)}

\* the record is in the scene under its own names: the nodes with their
\* types and captured values, and the captured connections
RestoredAsNamed(e) ==
    /\ ObjExists(scene, e[1]) /\ scene.types[e[1]] = "shadingEngine"
    /\ ObjExists(scene, e[2].base_material.name)
    /\ scene.types[e[2].base_material.name] = e[2].base_material.type
    /\ \A i \in 1..Len(e[2].nodes) :
          LET name == e[2].nodes[i][1]
              settings == e[2].nodes[i][2]
          IN /\ ObjExists(scene, name)
             /\ scene.types[name] = settings.node_type
             /\ \A j \in 1..Len(settings.Attributes) :
                   scene.vals[<<name, settings.Attributes[j][1]>>]
                       = settings.Attributes[j][2]
    /\ Range(e[2].connections) \subseteq scene.conns

\* C1: round trip.  After import_shaders has read an exported file into a
\* scene that held none of the names recorded in it, the call has returned and
\* every record of the file is in the scene under its own names: shading
\* group, base material and nodes with the captured types and attribute
\* values, and the connections made are exactly the captured ones.
C1_RoundTrip ==
    (/\ ImportedFile
     /\ last.mode = "rename"
     /\ DocNames(fs[last.arg]) \cap DOMAIN last.pre.types = {})
    => /\ last.ok
       /\ \A i \in 1..Len(fs[last.arg]) : RestoredAsNamed(fs[last.arg][i])
       /\ NewConnections = DocConnections(fs[last.arg])

\* C2: in every record of an exported document, the node of every plug of
\* every connection is a key of "nodes", the shading group or the base material.
C2_PlugsAreNodes ==
    \A p \in DOMAIN fs : \A i \in 1..Len(fs[p]) :
        \A c \in Range(fs[p][i][2].connections) :
            /\ SplitHead(c[1]) \in RecordNames(fs[p][i])
            /\ SplitHead(c[2]) \in RecordNames(fs[p][i])

\* a plug with its node renamed by f, the attribute part unchanged
MapPlug(f, plug) ==
    IF SplitHead(plug) \in DOMAIN f
    THEN Plug(f[SplitHead(plug)], SplitRest(plug))
    ELSE plug

\* there is a one-to-one map of the record's names to nodes the call created,
\* of the recorded types, under which every recorded connection was made
MappedToNew(e) ==
    \E f \in [RecordNames(e) -> NewNodes] :
        /\ \A x, y \in RecordNames(e) : x # y => f[x] # f[y]
        /\ scene.types[f[e[1]]] = "shadingEngine"
        /\ scene.types[f[e[2].base_material.name]] = e[2].base_material.type
        /\ \A i \in 1..Len(e[2].nodes) :
              scene.types[f[e[2].nodes[i][1]]] = e[2].nodes[i][2].node_type
        /\ \A c \in Range(e[2].connections) :
              <<MapPlug(f, c[1]), MapPlug(f, c[2])>> \in scene.conns

\* C3: when import_shaders with shader_conflicts="rename" has returned, for
\* every record of the file there is a one-to-one map of its shading group,
\* base material and nodes to distinct nodes the call created, under which
\* every recorded connection is made, whatever names the scene held.
C3_RenameConsistent ==
    (ImportedFile /\ last.mode = "rename" /\ last.ok)
    => \A i \in 1..Len(fs[last.arg]) : MappedToNew(fs[last.arg][i])

\* the objects of a selection that have a shape below them
WithShapes(sc, sel) ==
    {sel[i] : i \in {j \in 1..Len(sel) : \E x \in DOMAIN sc.parent : sc.parent[x] = sel[j]}}

\* the records of a document whose shading group is, or is not, in a scene
Present(sc, doc) == {i \in 1..Len(doc) : doc[i][1] \in DOMAIN sc.types}

Absent(sc, doc) == {i \in 1..Len(doc) : doc[i][1] \notin DOMAIN sc.types}

\* the document without the records of the shading groups in a scene
WithoutPresent(sc, doc) == SelectSeq(doc, LAMBDA e : e[1] \notin DOMAIN sc.types)

\* the last call was import_shaders with shader_conflicts="skip" on a file
SkipImported == ImportedFile /\ last.mode = "skip"

\* C4: import_shaders with shader_conflicts="skip" does nothing on behalf of a
\* shading group of the file whose name is in the scene: when every shading
\* group of the file is, the scene is as it was; no shading group is created
\* beyond one for each other record; and the scene is the one an import of
\* the file without the skipped records leaves.
C4_SkipExisting ==
    SkipImported =>
        LET doc == fs[last.arg]
            others == import_shaders(last.pre, <<>>,
                          [p \in {last.arg} |-> WithoutPresent(last.pre, doc)],
                          last.arg, "rename")
        IN /\ Absent(last.pre, doc) = {} => (last.ok /\ scene = last.pre)
           /\ Cardinality(NewNodes \cap ShadingEngines(scene))
                  <= Cardinality(Absent(last.pre, doc))
           /\ last.ok => Cardinality(NewNodes \cap ShadingEngines(scene))
                             = Cardinality(Absent(last.pre, doc))
           /\ \A i \in Present(last.pre, doc) :
                 /\ doc[i][1] \in DOMAIN scene.types
                 /\ IncomingOfPlug(scene, Plug(doc[i][1], <<"u">>))
                        = IncomingOfPlug(last.pre, Plug(doc[i][1], <<"u">>))
           /\ scene = others.scene /\ last.ok = others.ok

\* C4 witness: a skipping import of a file with a shading group that was in
\* the scene and one that was not
C4_Witness ==
    /\ SkipImported
    /\ last.ok
    /\ Present(last.pre, fs[last.arg]) # {}
    /\ Absent(last.pre, fs[last.arg]) # {}

\* C5: when import_shaders with shader_conflicts="replace" has returned, for
\* every shading group of the file that was in the scene, the one of the scene
\* is gone and the one made from the file has its name: there are no more
\* shading groups than before but for the records that were not in the scene,
\* and the recorded connections into the shading group are there under its name.
C5_ReplaceExisting ==
    (ImportedFile /\ last.mode = "replace" /\ last.ok)
    => LET doc == fs[last.arg]
       IN /\ Cardinality(ShadingEngines(scene))
                 = Cardinality(ShadingEngines(last.pre))
                   + Cardinality(Absent(last.pre, doc))
          /\ \A i \in Present(last.pre, doc) :
                /\ doc[i][1] \in ShadingEngines(scene)
                /\ \A c \in Range(doc[i][2].connections) :
                      SplitHead(c[2]) = doc[i][1] => c \in scene.conns

\* C6: import_shaders with shader_conflicts="cancel" on a file returns after
\* logging the cancellation and leaves the scene as it was.
C6_CancelKeepsScene ==
    (ImportedFile /\ last.mode = "cancel")
    => /\ last.ok
       /\ last.log = <<"error: import cancelled">>
       /\ scene = last.pre

\* C6 witness: a cancelled import of a file that holds a shading network
C6_Witness ==
    /\ ImportedFile
    /\ last.mode = "cancel"
    /\ Len(fs[last.arg]) > 0

\* nothing is selected, or nothing of what the selection type asks for
NothingToExport ==
    \/ last.presel = <<>>
    \/ last.mode = "mesh" /\ WithShapes(last.pre, last.presel) = {}
    \/ last.mode = "shadingEngine"
       /\ Range(last.presel) \cap ShadingEngines(last.pre) = {}

C8_MissingPathLogged ==
    /\ (last.op = "validate" /\ last.ret \notin DOMAIN fs)
       => (last.ret = NoPath /\ last.log # <<>>)
    /\ (last.op = "import" /\ last.arg \notin DOMAIN fs)
       => (last.ok /\ last.log # <<>> /\ scene = last.pre)

\* a document has the shape of the format, the settings of a node being
\* keyed as `keys` says: distinct shading group names, and for each a record
\* with base_material {name, type}, nodes, connections that are pairs of
\* plugs, and meshes
HasShape(doc, keys) ==
    /\ \A i, j \in 1..Len(doc) : doc[i][1] = doc[j][1] => i = j
    /\ \A i \in 1..Len(doc) :
          LET net == doc[i][2]
          IN /\ DOMAIN net = {"base_material", "nodes", "connections", "meshes"}
             /\ DOMAIN net.base_material = {"name", "type"}
             /\ \A k \in 1..Len(net.nodes) : DOMAIN net.nodes[k][2] = keys
             /\ \A k \in 1..Len(net.connections) : Len(net.connections[k]) = 2
             /\ DOMAIN net.meshes = 1..Len(net.meshes)

\* C9 as stated: every document export_shaders writes has the ShaderNetwork
\* shape, each node with the keys node_type and attributes.
C9_ShapeAsStated ==
    \A p \in DOMAIN fs : HasShape(fs[p], {"node_type", "attributes"})

\* C9 amended: every document export_shaders writes has the ShaderNetwork
\* shape, each node with the keys node_type and Attributes, and these are the
\* keys import_shaders reads.
C9_Shape ==
    \A p \in DOMAIN fs :
        /\ HasShape(fs[p], {"node_type", "Attributes"})
        /\ \A i \in 1..Len(fs[p]) :
              /\ DOMAIN fs[p][i][2] = import_keys.network
              /\ DOMAIN fs[p][i][2].base_material = import_keys.base_material
              /\ \A k \in 1..Len(fs[p][i][2].nodes) :
                    DOMAIN fs[p][i][2].nodes[k][2] = import_keys.settings

\* C9 witness: a document with two records, with nodes, attribute values,
\* connections and meshes
C9_Witness ==
    /\ ExportPath \in DOMAIN fs
    /\ Len(fs[ExportPath]) = 2
    /\ \A i \in 1..2 :
          /\ Len(fs[ExportPath][i][2].nodes) > 1
          /\ Len(fs[ExportPath][i][2].nodes[1][2].Attributes) > 0
          /\ Len(fs[ExportPath][i][2].connections) > 1
          /\ Len(fs[ExportPath][i][2].meshes) > 0

\* the shading groups the shapes of the selected objects are bound to
BoundTo(sc, sel) ==
    {SplitHead(c[2]) : c \in {x \in sc.conns :
        /\ SplitRest(x[2]) = <<"D">>
        /\ SplitHead(x[1]) \in DOMAIN sc.parent
        /\ sc.parent[SplitHead(x[1])] \in Range(sel)}}

\* C10: export_shaders called with selection_type "meshes" or "shadingEngine"
\* writes one entry for each shading group bound to a selected mesh, or for
\* each selected shading group, each once.
C10_SelectionTypes ==
    (last.op = "export" /\ last.mode \in {"meshes", "shadingEngine"} /\ last.ok)
    => /\ \A i, j \in 1..Len(fs[ExportPath]) :
             fs[ExportPath][i][1] = fs[ExportPath][j][1] => i = j
       /\ Range(Keys(fs[ExportPath])) =
             IF last.mode = "meshes" THEN BoundTo(last.pre, last.presel)
             ELSE Range(last.presel) \cap ShadingEngines(last.pre)

-----------------------------------------------------------------------------
(* core.py: flatten_list called on its own *)

\* the longest list or tuple of an input
MaxLen == 2

Leaves == {Num(1), Num(2)}

SeqsOf(S) == UNION {[1..n -> S] : n \in 0..MaxLen}

\* the values that are a leaf or a list or tuple of leaves
Nested == Leaves \cup {List(q) : q \in SeqsOf(Leaves)}

\* matrix: lists of leaves and of lists or tuples, nested up to twice, as in
\* the example of the docstring, [[1.0,2.3], [4, (), "string_val"]]
Matrices == SeqsOf(Leaves \cup {List(q) : q \in SeqsOf(Nested)})

\* a call of flatten_list is to be made with one of the inputs
FlattenInit ==
    /\ scene = Scenes[1]
    /\ selection = <<>>
    /\ fs = <<>>
    /\ node_list_default = <<>>
    /\ imports = 0
    /\ last \in {[User("init") EXCEPT !.arg = matrix] : matrix \in Matrices}

FlattenList ==
    /\ last.op = "init"
    /\ last' = Call("flatten_list", last.arg, "", TRUE, flatten_list(last.arg), <<>>)
    /\ UNCHANGED <<scene, selection, fs, node_list_default, imports>>

FlattenNext == FlattenList

FlattenSpec == FlattenInit /\ [][FlattenNext]_vars

\* the leaf values of a list, in their order
RECURSIVE LeavesOf(_)
LeavesOf(q) ==
    IF q = <<>> THEN <<>>
    ELSE (IF Head(q).t = "list" THEN LeavesOf(Head(q).v) ELSE <<Head(q)>>)
         \o LeavesOf(Tail(q))

\* C11: flatten_list returns, for any list with nested lists or tuples, a
\* list none of whose elements is a list or tuple, holding the leaf values of
\* the input in their order.
C11_FlattenList ==
    last.op = "flatten_list"
    => /\ \A i \in 1..Len(last.ret) : last.ret[i].t = "num"
       /\ last.ret = LeavesOf(last.arg)

-----------------------------------------------------------------------------
(* core.py: get_src_nodes called on its own, node_list not passed *)

\* what a call leaves: the list it returns is the default of node_list, which
\* it appended to in place
GotSrcNodes(node_name, r) ==
    /\ last' = Call("get_src_nodes", node_name, "", r.ok, r.list, <<>>)
    /\ node_list_default' = r.list
    /\ UNCHANGED <<scene, selection, fs, imports>>

GetSrcNodes(node_name) ==
    /\ ObjExists(scene, node_name)
    /\ scene.types[node_name] = "shadingEngine"
    /\ GotSrcNodes(node_name, get_src_nodes(scene, node_name, node_list_default, 0))

SrcNodesNext ==
    \/ \E i \in TargetScenes : OpenScene(i)
    \/ \E node_name \in {nS, nR, nE} : GetSrcNodes(node_name)

SrcNodesSpec == Init /\ [][SrcNodesNext]_vars

\* the nodes, meshes apart, with a connection into one of the nodes of S
NonMeshSources(sc, S) ==
    {n \in {SplitHead(c[1]) : c \in {x \in sc.conns : SplitHead(x[2]) \in S}} :
        sc.types[n] # "mesh"}

RECURSIVE UpstreamOf(_, _)
UpstreamOf(sc, S) ==
    IF NonMeshSources(sc, S) \subseteq S THEN S
    ELSE UpstreamOf(sc, S \cup NonMeshSources(sc, S))

\* the nodes of the graph of a node: what is reached from it along incoming
\* connections, meshes apart
Upstream(sc, node_name) == UpstreamOf(sc, NonMeshSources(sc, {node_name}))

\* C12: get_src_nodes(node_name), node_list not passed, returns the nodes of
\* the graph of node_name in the scene as it is, each once, whatever calls of
\* get_src_nodes were made before in the session.
C12_SrcNodes ==
    (last.op = "get_src_nodes" /\ last.ok)
    => /\ \A i, j \in 1..Len(last.ret) : last.ret[i] = last.ret[j] => i = j
       /\ Range(last.ret) = Upstream(last.pre, last.arg)

=============================================================================
